---- MODULE Spec2Model ----
(***************************************************************************)
(* django-tasks-gcp: the Cloud Tasks backend (enqueue path), the dispatch  *)
(* view TaskView (execute path) and the view authenticators.               *)
(*                                                                         *)
(* Python values are modelled as tagged records so that TLC can compare    *)
(* them: None is the record PyNone, a string is PyStr(s), an int PyInt(n).     *)
(* An operation's outcome is Return(v) or Raise(exc).                      *)
(***************************************************************************)
EXTENDS Integers, Sequences, FiniteSets, TLC

(* ------------------------------------------------------------------ *)
(* Bounds of the model                                                 *)
(* ------------------------------------------------------------------ *)

\* The clock (timezone.now()) runs from 1 to MaxClock.
MaxClock == 2

\* Retry-count header values 0..MaxRetry are delivered by the queue.
MaxRetry == 2

\* The callbacks handled by the view in the specification Spec.
Callbacks == {1}

(* ------------------------------------------------------------------ *)
(* Python values                                                       *)
(* ------------------------------------------------------------------ *)

PyNone == [t |-> "None"]
PyStr(s) == [t |-> "str", s |-> s]
PyInt(n) == [t |-> "int", n |-> n]
PyBool(b) == [t |-> "bool", b |-> b]
PyList(xs) == [t |-> "list", items |-> xs]
PyTuple(xs) == [t |-> "tuple", items |-> xs]
\* A dict keeps insertion order: a sequence of <<key, value>> pairs.
PyDict(kvs) == [t |-> "dict", pairs |-> kvs]

Return(v) == [kind |-> "return", value |-> v]
Raise(e) == [kind |-> "raise", exc |-> e]

\* A timestamp field: None, or the clock value it was set to.
NoTime == [is_none |-> TRUE, at |-> 0]
At(n) == [is_none |-> FALSE, at |-> n]

DictKeys(d) == {d.pairs[i][1] : i \in DOMAIN d.pairs}
DictGet(d, k) == d.pairs[CHOOSE i \in DOMAIN d.pairs : d.pairs[i][1] = k][2]

(* ------------------------------------------------------------------ *)
(* authn.py                                                            *)
(* ------------------------------------------------------------------ *)

\* The Authorization header values the model delivers.  A header is the
\* sequence of its space-separated words (what str.split(" ") returns);
\* <<>> is the header being absent (headers.get gives None).
AuthHeaders ==
    { <<>>,                         \* no Authorization header
      <<"">>,                       \* an empty header
      <<"invalid">>,                \* test_authn.py:22
      <<"Token", "invalid">>,       \* test_authn.py:25
      <<"Bearer", "bad.token.value">>,
      <<"Bearer", "good.token">>,
      <<"Bearer", "other.token">>,
      <<"Bearer", "noemail.token">> }

ServiceEmail == "service@example.com"

\* id_token.verify_oauth2_token: the external verifier.  It returns the
\* claim set of a token it accepts and raises for any other token.
VerifyOauth2Token(token) ==
    CASE token = "good.token" ->
           Return([email |-> ServiceEmail, sub |-> "1234567890"])
      [] token = "other.token" ->
           Return([email |-> "not-matching@example.com", sub |-> "42"])
      [] token = "noemail.token" ->
           Return([sub |-> "7"])
      [] OTHER -> Raise("ValueError")

\* `not token` for the header value.
HeaderFalsy(h) == h = <<>> \/ h = <<"">>

\* OIDCAuthenticate with the comparison of authn.py:27 lost: any verified
\* token is accepted.
OIDCAuthenticateAnyPrincipal(sae, h, netfail) ==
    IF HeaderFalsy(h) THEN Return(PyNone)
    ELSE IF Len(h) < 2 THEN Raise("IndexError")
    ELSE LET v == IF netfail THEN Raise("TransportError")
                  ELSE VerifyOauth2Token(h[2])
         IN  IF v.kind = "raise" THEN Return(PyNone)
             ELSE Return([t |-> "idinfo", claims |-> v.value])

\* OIDCTokenAuth.authenticate.  sae is service_account_email ("" when it
\* is None: both are falsy and nothing else reads it); netfail is the
\* verifier failing for a reason of its own (network, certificates).
\* The result is Return(identity), Return(PyNone) or Raise(exc).
OIDCAuthenticate(sae, h, netfail) ==
    IF HeaderFalsy(h) THEN Return(PyNone)
    ELSE IF Len(h) < 2 THEN Raise("IndexError")     \* token.split(" ")[1]
    ELSE LET v == IF netfail THEN Raise("TransportError")
                  ELSE VerifyOauth2Token(h[2])
         IN  IF v.kind = "raise" THEN Return(PyNone)
             ELSE IF sae # "" /\ "email" \notin DOMAIN v.value
                  THEN Return(PyNone)               \* KeyError, caught
             ELSE IF sae # "" /\ v.value.email # sae
                  THEN Return(PyNone)
             ELSE Return([t |-> "idinfo", claims |-> v.value])

AnonymousUser == [t |-> "AnonymousUser"]

(* ------------------------------------------------------------------ *)
(* json.dumps / json.loads                                             *)
(* ------------------------------------------------------------------ *)

\* A JSON text is the sequence of its tokens.
RECURSIVE JsonDumps(_)
RECURSIVE JsonItems(_)
RECURSIVE JsonPairs(_)

\* The elements of an array, ", "-separated.
JsonItems(xs) ==
    IF xs = <<>> THEN <<>>
    ELSE IF Len(xs) = 1 THEN JsonDumps(xs[1])
    ELSE JsonDumps(xs[1]) \o <<",">> \o JsonItems(Tail(xs))

\* The members of an object, in the dict's insertion order.
JsonPairs(kvs) ==
    IF kvs = <<>> THEN <<>>
    ELSE LET m == <<"\"" \o kvs[1][1] \o "\"", ":">> \o JsonDumps(kvs[1][2])
         IN  IF Len(kvs) = 1 THEN m
             ELSE m \o <<",">> \o JsonPairs(Tail(kvs))

\* json.dumps(v): a list and a tuple both become an array.
JsonDumps(v) ==
    CASE v.t = "None" -> <<"null">>
      [] v.t = "bool" -> IF v.b THEN <<"true">> ELSE <<"false">>
      [] v.t = "int" -> <<ToString(v.n)>>
      [] v.t = "str" -> <<"\"" \o v.s \o "\"">>
      [] v.t \in {"list", "tuple"} -> <<"[">> \o JsonItems(v.items) \o <<"]">>
      [] v.t = "dict" -> <<"{">> \o JsonPairs(v.pairs) \o <<"}">>

\* bytes: str.encode() of a JSON text.
Encode(text) == [t |-> "bytes", text |-> text]

(* ------------------------------------------------------------------ *)
(* Process-wide configuration of the view (settings.TASKS)             *)
(* ------------------------------------------------------------------ *)

\* A configured backend: its alias, whether it is a CloudTasksBackend,
\* its VIEW_AUTHN option ("<unset>" when the key is missing) and the
\* service_account_email of VIEW_AUTHN_PARAMS ("" for None).
Backend(alias, cloud, authn, sae) ==
    [alias |-> alias, cloud |-> cloud, VIEW_AUTHN |-> authn, sae |-> sae]

\* The configurations the model starts in: TASKS in configuration order,
\* and the backend_name the view was registered with ("" for None).
ViewSettings ==
    { [backend_name |-> "",
       TASKS |-> <<Backend("default", TRUE, "OIDCTokenAuth", "")>>],
      [backend_name |-> "",
       TASKS |-> <<Backend("default", TRUE, "OIDCTokenAuth", ServiceEmail)>>],
      [backend_name |-> "",
       TASKS |-> <<Backend("default", TRUE, "None", "")>>],
      [backend_name |-> "",
       TASKS |-> <<Backend("default", FALSE, "None", "")>>],
      [backend_name |-> "not_configured",
       TASKS |-> <<Backend("default", TRUE, "None", "")>>],
      [backend_name |-> "secure",
       TASKS |-> <<Backend("default", TRUE, "None", ""),
                   Backend("secure", TRUE, "OIDCTokenAuth", ServiceEmail)>>],
      [backend_name |-> "",
       TASKS |-> <<Backend("default", FALSE, "None", ""),
                   Backend("open", TRUE, "None", ""),
                   Backend("secure", TRUE, "OIDCTokenAuth", ServiceEmail)>>],
      [backend_name |-> "",
       TASKS |-> <<Backend("default", TRUE, "<unset>", "")>>],
      [backend_name |-> "",
       TASKS |-> <<Backend("default", TRUE, "NotAViewAuth", "")>>] }

(* ------------------------------------------------------------------ *)
(* backend.py: get_view_authn                                          *)
(* ------------------------------------------------------------------ *)

\* CloudTasksBackend.get_view_authn: the authenticator object, None, or
\* ImproperlyConfigured when VIEW_AUTHN is not set at all.
GetViewAuthn(backend) ==
    IF backend.VIEW_AUTHN = "<unset>" THEN Raise("ImproperlyConfigured")
    ELSE IF backend.VIEW_AUTHN = "None" THEN Return(PyNone)
    ELSE Return([t |-> backend.VIEW_AUTHN, sae |-> backend.sae])

(* ------------------------------------------------------------------ *)
(* views.py: TaskView                                                  *)
(* ------------------------------------------------------------------ *)

\* ResolveBackend with the name and the kind of the backends ignored: the
\* first configured backend governs.
ResolveBackendFirstConfigured(st) == Return(st.TASKS[1])

\* The backend that governs the view (views.py:70-83): the named one, or
\* the first CloudTasksBackend of task_backends.all().
ResolveBackend(st) ==
    IF st.backend_name # ""
    THEN IF \E i \in DOMAIN st.TASKS : st.TASKS[i].alias = st.backend_name
         THEN Return(st.TASKS[CHOOSE i \in DOMAIN st.TASKS :
                                  st.TASKS[i].alias = st.backend_name])
         ELSE Raise("ImproperlyConfigured")
    ELSE IF \E i \in DOMAIN st.TASKS : st.TASKS[i].cloud
         THEN Return(st.TASKS[CHOOSE i \in DOMAIN st.TASKS :
                  /\ st.TASKS[i].cloud
                  /\ \A j \in DOMAIN st.TASKS : st.TASKS[j].cloud => i <= j])
         ELSE Raise("ImproperlyConfigured")

\* TaskView.authenticate: Return(identity), Return(PyNone) or Raise(exc).
ViewAuthenticate(st, h, netfail) ==
    LET b == ResolveBackend(st) IN
    IF b.kind = "raise" THEN b
    ELSE LET authn == GetViewAuthn(b.value) IN
         IF authn.kind = "raise" THEN authn
         ELSE IF authn.value = PyNone THEN Return(AnonymousUser)
         ELSE IF authn.value.t # "OIDCTokenAuth"     \* not a ViewAuth
              THEN Raise("ImproperlyConfigured")
         ELSE OIDCAuthenticate(authn.value.sae, h, netfail)

\* IdentityIsNone with the test of views.py:37 lost: no request is refused.
IdentityIsNoneNever(identity) == FALSE

\* post, views.py:37: the test that decides whether the request is refused.
IdentityIsNone(identity) == identity = PyNone

\* JsonResponse({"success": ok}, status=code)
JsonResponse(ok, code) == [success |-> ok, status_code |-> code]
NoResponse == [success |-> FALSE, status_code |-> 0]

\* The request bodies the model delivers: JSON texts of well-formed and
\* ill-formed envelopes, and one text that is not JSON.
Envelope(path, args, kwargs) ==
    PyDict(<< <<"task_path", PyStr(path)>>,
              <<"args", PyList(args)>>,
              <<"kwargs", PyDict(kwargs)>> >>)

JsonDocs ==
    { Envelope("tests.test_task", <<>>, <<>>),
      Envelope("tests.test_task", <<PyInt(1)>>, << <<"b", PyInt(2)>> >>),
      Envelope("tests.context_task", <<PyInt(1)>>, <<>>),
      Envelope("tests.not_a_task", <<>>, <<>>),
      Envelope("not.a.path", <<>>, <<>>),
      PyDict(<< <<"args", PyList(<<>>)>>, <<"kwargs", PyDict(<<>>)>> >>),
      PyDict(<< <<"task_path", PyInt(1)>>, <<"args", PyList(<<>>)>>,
                <<"kwargs", PyDict(<<>>)>> >>),
      PyDict(<< <<"task_path", PyStr("tests.test_task")>>,
                <<"kwargs", PyDict(<<>>)>> >>),
      PyDict(<< <<"task_path", PyStr("tests.test_task")>>,
                <<"args", PyDict(<<>>)>>, <<"kwargs", PyDict(<<>>)>> >>),
      PyDict(<< <<"task_path", PyStr("tests.test_task")>>,
                <<"args", PyList(<<>>)>> >>),
      PyDict(<< <<"task_path", PyStr("tests.test_task")>>,
                <<"args", PyList(<<>>)>>, <<"kwargs", PyList(<<>>)>> >>),
      PyList(<<>>),
      PyInt(1) }

NotJson == <<"{", "\"task_path\"">>

Bodies == {Encode(JsonDumps(d)) : d \in JsonDocs} \cup {Encode(NotJson)}

\* The strings and the numbers a JSON text of the model may hold.
JsonStrings ==
    { "task_path", "args", "kwargs", "a", "b", "tests.test_task",
      "tests.context_task", "tests.not_a_task", "not.a.path",
      "tests.local_task", "example.tasks.do_task" }
JsonNumbers == 0..2

\* The tokens of the strings and of the numbers.
Quoted(s) == "\"" \o s \o "\""
IsStringToken(t) == \E s \in JsonStrings : Quoted(s) = t
IsNumberToken(t) == \E n \in JsonNumbers : ToString(n) = t

\* The outcome of parsing a value off the front of a token sequence.
Parsed(v, rest) == [ok |-> TRUE, value |-> v, rest |-> rest]
NotParsed == [ok |-> FALSE, value |-> PyNone, rest |-> <<>>]

\* dict[k] = v while a JSON object is read: a repeated name keeps its
\* place and takes the later value.
DictSet(kvs, k, v) ==
    IF \E i \in DOMAIN kvs : kvs[i][1] = k
    THEN [i \in DOMAIN kvs |-> IF kvs[i][1] = k THEN <<k, v>> ELSE kvs[i]]
    ELSE Append(kvs, <<k, v>>)

RECURSIVE JsonValue(_)
RECURSIVE JsonArray(_, _)
RECURSIVE JsonObject(_, _)

\* The elements of an array after "[" and the elements in acc: a value,
\* then "," and more, or "]".
JsonArray(ts, acc) ==
    LET v == JsonValue(ts) IN
    IF ~v.ok \/ v.rest = <<>> THEN NotParsed
    ELSE IF Head(v.rest) = "]"
         THEN Parsed(PyList(Append(acc, v.value)), Tail(v.rest))
    ELSE IF Head(v.rest) = ","
         THEN JsonArray(Tail(v.rest), Append(acc, v.value))
    ELSE NotParsed

\* The members of an object after "{" and the members in acc: a name,
\* ":", a value, then "," and more, or "}".
JsonObject(ts, acc) ==
    IF Len(ts) < 2 \/ ~IsStringToken(ts[1]) \/ ts[2] # ":" THEN NotParsed
    ELSE LET k == CHOOSE s \in JsonStrings : Quoted(s) = ts[1]
             v == JsonValue(Tail(Tail(ts)))
         IN  IF ~v.ok \/ v.rest = <<>> THEN NotParsed
             ELSE IF Head(v.rest) = "}"
                  THEN Parsed(PyDict(DictSet(acc, k, v.value)), Tail(v.rest))
             ELSE IF Head(v.rest) = ","
                  THEN JsonObject(Tail(v.rest), DictSet(acc, k, v.value))
             ELSE NotParsed

\* One JSON value off the front of ts: an array becomes a list, an
\* object a dict.
JsonValue(ts) ==
    IF ts = <<>> THEN NotParsed
    ELSE LET t == Head(ts)
             rest == Tail(ts)
         IN  CASE t = "null" -> Parsed(PyNone, rest)
               [] t = "true" -> Parsed(PyBool(TRUE), rest)
               [] t = "false" -> Parsed(PyBool(FALSE), rest)
               [] IsNumberToken(t) ->
                    Parsed(PyInt(CHOOSE n \in JsonNumbers : ToString(n) = t), rest)
               [] IsStringToken(t) ->
                    Parsed(PyStr(CHOOSE s \in JsonStrings : Quoted(s) = t), rest)
               [] t = "[" ->
                    IF rest # <<>> /\ Head(rest) = "]"
                    THEN Parsed(PyList(<<>>), Tail(rest))
                    ELSE JsonArray(rest, <<>>)
               [] t = "{" ->
                    IF rest # <<>> /\ Head(rest) = "}"
                    THEN Parsed(PyDict(<<>>), Tail(rest))
                    ELSE JsonObject(rest, <<>>)
               [] OTHER -> NotParsed

\* json.loads(body): the value the text of the body denotes, or
\* JSONDecodeError when the text is not one JSON value.
JsonLoads(body) ==
    LET r == JsonValue(body.text) IN
    IF r.ok /\ r.rest = <<>> THEN Return(r.value)
    ELSE Raise("JSONDecodeError")

\* TaskView.parse_content
ParseContent(body) == JsonLoads(body)

\* `key in data` for the parsed document; a TypeError for a value that is
\* no container.
Contains(data, key) ==
    CASE data.t = "dict" -> Return(key \in DictKeys(data))
      [] data.t = "list" -> Return(PyStr(key) \in {data.items[i] : i \in DOMAIN data.items})
      [] OTHER -> Raise("TypeError")

\* ValidateInput with the two tests of kwargs (views.py:114-118) lost.
ValidateInputWithoutKwargs(data) ==
    LET has == Contains(data, "task_path") IN
    IF has.kind = "raise" THEN has
    ELSE IF ~has.value THEN Raise("ValueError")
    ELSE IF data.t # "dict" THEN Raise("TypeError")
    ELSE IF DictGet(data, "task_path").t # "str" THEN Raise("ValueError")
    ELSE IF "args" \notin DictKeys(data) THEN Raise("ValueError")
    ELSE IF DictGet(data, "args").t # "list" THEN Raise("ValueError")
    ELSE Return(data)

\* TaskView.validate_input: Return(data) or Raise(exc).
ValidateInput(data) ==
    LET has == Contains(data, "task_path") IN
    IF has.kind = "raise" THEN has
    ELSE IF ~has.value THEN Raise("ValueError")
    ELSE IF data.t # "dict" THEN Raise("TypeError")
    ELSE IF DictGet(data, "task_path").t # "str" THEN Raise("ValueError")
    ELSE IF "args" \notin DictKeys(data) THEN Raise("ValueError")
    ELSE IF DictGet(data, "args").t # "list" THEN Raise("ValueError")
    ELSE IF "kwargs" \notin DictKeys(data) THEN Raise("ValueError")
    ELSE IF DictGet(data, "kwargs").t # "dict" THEN Raise("ValueError")
    ELSE Return(data)

\* import_string over the modules of the tests (test_views.py:45-56) and
\* of the example project (example/tasks.py:4): a task, a task that takes
\* the context, a plain function, or ImportError.
ImportString(path) ==
    CASE path = "tests.test_task" ->
           Return([t |-> "Task", module_path |-> path, takes_context |-> FALSE,
                   backend |-> "default"])
      [] path = "tests.context_task" ->
           Return([t |-> "Task", module_path |-> path, takes_context |-> TRUE,
                   backend |-> "default"])
      [] path = "tests.not_a_task" ->
           Return([t |-> "function", module_path |-> path,
                   takes_context |-> FALSE, backend |-> ""])
      [] path = "example.tasks.do_task" ->
           Return([t |-> "Task", module_path |-> path, takes_context |-> FALSE,
                   backend |-> "default"])
      [] OTHER -> Raise("ImportError")

\* TaskView.get_task: Return(task) or Raise(exc).
GetTask(data) ==
    LET o == ImportString(DictGet(data, "task_path").s) IN
    IF o.kind = "raise" THEN o
    ELSE IF o.value.t # "Task" THEN Raise("SuspiciousOperation")
    ELSE o

NoTask == [t |-> "None", module_path |-> "", takes_context |-> FALSE, backend |-> ""]

\* The X-Cloudtasks-Taskname and X-CloudTasks-TaskRetryCount header values
\* the model delivers; PyNone is the header being absent.
TaskNameHeaders == {PyNone, PyStr("test-task-id")}
RetryCountHeaders ==
    {PyNone, PyStr("abc")} \cup {PyStr(ToString(n)) : n \in 0..MaxRetry}

\* RetryCount with the header ignored: every delivery is the first attempt.
RetryCountIgnoresHeader(header) == Return(0)

\* int(request.headers.get("X-CloudTasks-TaskRetryCount", 0))
RetryCount(header) ==
    IF header = PyNone THEN Return(0)
    ELSE IF \E n \in 0..MaxRetry : ToString(n) = header.s
         THEN Return(CHOOSE n \in 0..MaxRetry : ToString(n) = header.s)
         ELSE Raise("ValueError")

\* results.py: CloudTaskResult.attempts
Attempts(result) == result.retry_count + 1

\* The CloudTaskResult get_task_result constructs (views.py:134-149).
CloudTaskResult(tk, task_id, retry_count, data, now) ==
    [ task |-> tk.module_path,
      id |-> task_id,
      status |-> "RUNNING",
      started_at |-> At(now),
      finished_at |-> NoTime,
      backend |-> tk.backend,
      args |-> DictGet(data, "args"),
      kwargs |-> DictGet(data, "kwargs"),
      retry_count |-> retry_count,
      enqueued_at |-> NoTime,
      last_attempted_at |-> NoTime,
      errors |-> <<>>,
      worker_ids |-> <<>>,
      has_return_value |-> FALSE,
      return_value |-> PyNone ]

\* TaskView.get_task_result: Return(task_result) or Raise(exc).
GetTaskResult(name_header, retry_header, data, tk, now) ==
    LET rc == RetryCount(retry_header) IN
    IF rc.kind = "raise" THEN rc
    ELSE Return(CloudTaskResult(tk, name_header, rc.value, data, now))

NoResult ==
    [ task |-> "", id |-> PyNone, status |-> "NONE",
      started_at |-> NoTime, finished_at |-> NoTime, backend |-> "",
      args |-> PyNone, kwargs |-> PyNone, retry_count |-> 0,
      enqueued_at |-> NoTime, last_attempted_at |-> NoTime,
      errors |-> <<>>, worker_ids |-> <<>>,
      has_return_value |-> FALSE, return_value |-> PyNone ]

(* ------------------------------------------------------------------ *)
(* utils.py                                                            *)
(* ------------------------------------------------------------------ *)

\* An exception value: its class (module, qualified name) and message.
Exc(module, qualname, msg) == [module |-> module, qualname |-> qualname, msg |-> msg]
NoExc == Exc("", "", "")

\* get_module_path(type(e))
GetModulePath(cls) == cls.module \o "." \o cls.qualname

\* get_exception_traceback(e): the formatted lines, the last of which
\* names the class and the message.
GetExceptionTraceback(e) ==
    <<"Traceback (most recent call last):", e.qualname \o ": " \o e.msg>>

\* TaskError(exception_class_path=..., traceback=...) of views.py:172-175
TaskError(e) ==
    [exception_class_path |-> GetModulePath(e),
     traceback |-> GetExceptionTraceback(e)]

(* ------------------------------------------------------------------ *)
(* State                                                               *)
(* ------------------------------------------------------------------ *)

VARIABLES
    clock,          \* timezone.now()
    settings,       \* the view's configuration, read-only after startup
    pc,             \* per callback: where TaskView.post stands
    authorization,  \* per callback: the request's Authorization header
    body,           \* per callback: the request's body
    headers,        \* per callback: the task-name and retry-count headers
    identity,       \* per callback: what authenticate returned
    data,           \* per callback: the parsed, then validated body
    task,           \* per callback: the resolved task
    task_result,    \* per callback: the CloudTaskResult
    exc,            \* per callback: the exception run_task has caught
    response,       \* per callback: the response post returned
    raised,         \* per callback: the exception post raised ("" if none)
    trace,          \* per callback: the steps of post executed so far
    calls,          \* per callback: the invocations of the task body
    signals         \* per callback: the lifecycle events sent, in order

VARIABLES
    options,           \* the backend's OPTIONS, read-only after startup
    in_atomic_block,   \* a transaction.atomic() block is open
    run_on_commit,     \* the hooks registered with transaction.on_commit
    committing,        \* the hooks the commit still has to run, in order
    enq,               \* per enqueue() call: its arguments and its outcome
    create_calls,      \* the create_task calls made on the client, in order
    enqueued_signals   \* the task_enqueued events sent, in order

backend_vars ==
    <<options, in_atomic_block, run_on_commit, committing, enq, create_calls,
      enqueued_signals>>

view_vars ==
    <<settings, pc, authorization, body, headers, identity, data, task,
      task_result, exc, response, raised, trace, calls, signals>>

\* The headers of a callback before get_task_result has read them.
NoHeaders == [name |-> PyNone, retry |-> PyNone, read |-> FALSE]

\* The body of a callback that has not been delivered.
NoBody == Encode(<<>>)

\* The value of identity before authenticate has returned.
NotAuthenticated == [t |-> "<unbound>"]

\* The view before any of the callbacks cs has been delivered.
ViewInitOf(cs) ==
    /\ settings \in ViewSettings
    /\ clock = 1
    /\ pc = [c \in cs |-> "idle"]
    /\ authorization = [c \in cs |-> <<>>]
    /\ body = [c \in cs |-> NoBody]
    /\ headers = [c \in cs |-> NoHeaders]
    /\ identity = [c \in cs |-> NotAuthenticated]
    /\ data = [c \in cs |-> PyNone]
    /\ task = [c \in cs |-> NoTask]
    /\ task_result = [c \in cs |-> NoResult]
    /\ exc = [c \in cs |-> NoExc]
    /\ response = [c \in cs |-> NoResponse]
    /\ raised = [c \in cs |-> ""]
    /\ trace = [c \in cs |-> <<>>]
    /\ calls = [c \in cs |-> <<>>]
    /\ signals = [c \in cs |-> <<>>]

ViewInit == ViewInitOf(Callbacks)

\* post raises e: the request ends without a response.
PostRaises(c, e) ==
    /\ raised' = [raised EXCEPT ![c] = e]
    /\ pc' = [pc EXCEPT ![c] = "done"]

Step(c, name) == trace' = [trace EXCEPT ![c] = Append(@, name)]

\* Send with the event put in the record of every callback, as if the
\* callbacks shared one TaskResult.
SendToEveryCallback(c, signal, result) ==
    signals' = [d \in DOMAIN signals |->
                   Append(signals[d], [signal |-> signal, owner |-> c,
                                       task_result |-> result])]

\* Signal.send(sender, task_result=...): the event as the subscribers
\* see it, with the state of the TaskResult at that moment.
Send(c, signal, result) ==
    signals' = [signals EXCEPT ![c] =
                   Append(@, [signal |-> signal, owner |-> c,
                              task_result |-> result])]

\* What a subscriber raises when it raises.
SubscriberError == Exc("tests.receivers", "ReceiverError", "receiver failed")

\* What a task body raises when it raises (test_views.py:52).
TaskBodyError == Exc("builtins", "ValueError", "boom")

(* ------------------------------------------------------------------ *)
(* views.py: TaskView.post, step by step                               *)
(* ------------------------------------------------------------------ *)

\* A request reaches the view, with one of the Authorization headers hs
\* and one of the bodies bs: post starts.
Deliver(c, hs, bs) ==
    /\ UNCHANGED backend_vars
    /\ pc[c] = "idle"
    /\ \E h \in hs : authorization' = [authorization EXCEPT ![c] = h]
    /\ \E b \in bs : body' = [body EXCEPT ![c] = b]
    /\ pc' = [pc EXCEPT ![c] = "authenticate"]
    /\ UNCHANGED <<clock, settings, headers, identity, data, task, task_result, exc,
                   response, raised, trace, calls, signals>>

\* A callback arrives from anywhere: any header, any body.
Receive(c) == Deliver(c, AuthHeaders, Bodies)

\* post, views.py:35-39: authenticate, and refuse with 401 when no
\* identity comes back.
Authenticate(c) ==
    /\ UNCHANGED backend_vars
    /\ pc[c] = "authenticate"
    /\ Step(c, "authenticate")
    /\ \E netfail \in BOOLEAN :
         LET r == ViewAuthenticate(settings, authorization[c], netfail) IN
         IF r.kind = "raise"
         THEN /\ PostRaises(c, r.exc)
              /\ UNCHANGED <<identity, response>>
         ELSE /\ identity' = [identity EXCEPT ![c] = r.value]
              /\ IF IdentityIsNone(r.value)
                 THEN /\ response' = [response EXCEPT ![c] = JsonResponse(FALSE, 401)]
                      /\ pc' = [pc EXCEPT ![c] = "done"]
                 ELSE /\ pc' = [pc EXCEPT ![c] = "parse_content"]
                      /\ UNCHANGED response
              /\ UNCHANGED raised
    /\ UNCHANGED <<clock, settings, authorization, body, headers, data, task, task_result,
                   exc, calls, signals>>

\* post, views.py:41: data = self.parse_content(request)
Parse(c) ==
    /\ UNCHANGED backend_vars
    /\ pc[c] = "parse_content"
    /\ Step(c, "parse_content")
    /\ LET r == ParseContent(body[c]) IN
       IF r.kind = "raise"
       THEN PostRaises(c, r.exc) /\ UNCHANGED data
       ELSE /\ data' = [data EXCEPT ![c] = r.value]
            /\ pc' = [pc EXCEPT ![c] = "validate_input"]
            /\ UNCHANGED raised
    /\ UNCHANGED <<clock, settings, authorization, body, headers, identity, task,
                   task_result, exc, response, calls, signals>>

\* post, views.py:43: data = self.validate_input(data)
Validate(c) ==
    /\ UNCHANGED backend_vars
    /\ pc[c] = "validate_input"
    /\ Step(c, "validate_input")
    /\ LET r == ValidateInput(data[c]) IN
       IF r.kind = "raise"
       THEN PostRaises(c, r.exc) /\ UNCHANGED data
       ELSE /\ data' = [data EXCEPT ![c] = r.value]
            /\ pc' = [pc EXCEPT ![c] = "get_task"]
            /\ UNCHANGED raised
    /\ UNCHANGED <<clock, settings, authorization, body, headers, identity, task,
                   task_result, exc, response, calls, signals>>

\* post, views.py:45: task = self.get_task(data)
ResolveTask(c) ==
    /\ UNCHANGED backend_vars
    /\ pc[c] = "get_task"
    /\ Step(c, "get_task")
    /\ LET r == GetTask(data[c]) IN
       IF r.kind = "raise"
       THEN PostRaises(c, r.exc) /\ UNCHANGED task
       ELSE /\ task' = [task EXCEPT ![c] = r.value]
            /\ pc' = [pc EXCEPT ![c] = "get_task_result"]
            /\ UNCHANGED raised
    /\ UNCHANGED <<clock, settings, authorization, body, headers, identity, data,
                   task_result, exc, response, calls, signals>>

\* post, views.py:47: task_result = self.get_task_result(request, data, task)
\* for a request whose task-name header is one of names and whose
\* retry-count header is one of retries.
GetTaskResultStep(c, names, retries) ==
    /\ UNCHANGED backend_vars
    /\ pc[c] = "get_task_result"
    /\ Step(c, "get_task_result")
    /\ \E nh \in names, rh \in retries :
         LET r == GetTaskResult(nh, rh, data[c], task[c], clock) IN
         /\ headers' = [headers EXCEPT ![c] =
                           [name |-> nh, retry |-> rh, read |-> TRUE]]
         /\ IF r.kind = "raise"
            THEN PostRaises(c, r.exc) /\ UNCHANGED task_result
            ELSE /\ task_result' = [task_result EXCEPT ![c] = r.value]
                 /\ pc' = [pc EXCEPT ![c] = "task_started"]
                 /\ UNCHANGED raised
    /\ UNCHANGED <<clock, settings, authorization, body, identity, data, task,
                   exc, response, calls, signals>>

\* get_task_result for a callback from anywhere: any of the header values.
BuildTaskResult(c) == GetTaskResultStep(c, TaskNameHeaders, RetryCountHeaders)

(* ------------------------------------------------------------------ *)
(* views.py: TaskView.run_task, step by step                           *)
(* ------------------------------------------------------------------ *)

\* views.py:165-167: the three object.__setattr__ after task.call returned.
MarkSuccessful(result, value, now) ==
    [result EXCEPT !.has_return_value = TRUE,
                   !.return_value = value,
                   !.status = "SUCCESSFUL",
                   !.finished_at = At(now)]

\* views.py:171-179: the except branch, for the exception e it caught.
MarkFailed(result, e, now) ==
    [result EXCEPT !.errors = Append(@, TaskError(e)),
                   !.finished_at = At(now),
                   !.status = "FAILED"]

\* The arguments task.call receives (views.py:160-163).
CallArguments(tk, d) ==
    [context |-> tk.takes_context,
     args |-> DictGet(d, "args").items,
     kwargs |-> DictGet(d, "kwargs").pairs]

\* post, views.py:51-54: the response for the TaskResult's final status.
PostResponse(status) ==
    IF status = "FAILED" THEN JsonResponse(FALSE, 400)
    ELSE JsonResponse(TRUE, 200)

\* run_task, views.py:157: task_started.send.  A subscriber that raises
\* ends run_task and post: the send stands before the try.
SendTaskStarted(c) ==
    /\ UNCHANGED backend_vars
    /\ pc[c] = "task_started"
    /\ Step(c, "task_started")
    /\ Send(c, "task_started", task_result[c])
    /\ \E subscriber_raises \in BOOLEAN :
         IF subscriber_raises
         THEN PostRaises(c, SubscriberError.qualname)
         ELSE pc' = [pc EXCEPT ![c] = "call"] /\ UNCHANGED raised
    /\ UNCHANGED <<clock, settings, authorization, body, headers, identity, data, task,
                   task_result, exc, response, calls>>

\* run_task, views.py:159-167: the task body runs; it returns a value,
\* which is stored, or raises.
CallTask(c) ==
    /\ UNCHANGED backend_vars
    /\ pc[c] = "call"
    /\ Step(c, "call")
    /\ calls' = [calls EXCEPT ![c] = Append(@, CallArguments(task[c], data[c]))]
    /\ \E outcome \in {Return(PyBool(TRUE)), Raise(TaskBodyError)} :
         IF outcome.kind = "raise"
         THEN /\ exc' = [exc EXCEPT ![c] = outcome.exc]
              /\ pc' = [pc EXCEPT ![c] = "except"]
              /\ UNCHANGED task_result
         ELSE /\ task_result' = [task_result EXCEPT ![c] =
                                     MarkSuccessful(@, outcome.value, clock)]
              /\ pc' = [pc EXCEPT ![c] = "task_finished"]
              /\ UNCHANGED exc
    /\ UNCHANGED <<clock, settings, authorization, body, headers, identity, data, task,
                   response, raised, signals>>

\* run_task, views.py:169: task_finished.send of the success branch.  It
\* stands inside the try of line 159: what a subscriber raises is caught
\* by the except branch of line 170.
SendTaskFinished(c) ==
    /\ UNCHANGED backend_vars
    /\ pc[c] = "task_finished"
    /\ Step(c, "task_finished")
    /\ Send(c, "task_finished", task_result[c])
    /\ \E subscriber_raises \in BOOLEAN :
         IF subscriber_raises
         THEN /\ exc' = [exc EXCEPT ![c] = SubscriberError]
              /\ pc' = [pc EXCEPT ![c] = "except"]
              /\ UNCHANGED raised
         ELSE /\ pc' = [pc EXCEPT ![c] = "respond"]
              /\ UNCHANGED <<exc, raised>>
    /\ UNCHANGED <<clock, settings, authorization, body, headers, identity, data, task,
                   task_result, response, calls>>

\* run_task, views.py:170-179: the except branch records the failure.
HandleException(c) ==
    /\ UNCHANGED backend_vars
    /\ pc[c] = "except"
    /\ Step(c, "except")
    /\ task_result' = [task_result EXCEPT ![c] = MarkFailed(@, exc[c], clock)]
    /\ pc' = [pc EXCEPT ![c] = "task_finished_except"]
    /\ UNCHANGED <<clock, settings, authorization, body, headers, identity, data, task,
                   exc, response, raised, calls, signals>>

\* run_task, views.py:181: task_finished.send of the except branch.  A
\* subscriber that raises here ends run_task and post.
SendTaskFinishedExcept(c) ==
    /\ UNCHANGED backend_vars
    /\ pc[c] = "task_finished_except"
    /\ Step(c, "task_finished")
    /\ Send(c, "task_finished", task_result[c])
    /\ \E subscriber_raises \in BOOLEAN :
         IF subscriber_raises
         THEN PostRaises(c, SubscriberError.qualname)
         ELSE pc' = [pc EXCEPT ![c] = "respond"] /\ UNCHANGED raised
    /\ UNCHANGED <<clock, settings, authorization, body, headers, identity, data, task,
                   task_result, exc, response, calls>>

\* post, views.py:51-54
Respond(c) ==
    /\ UNCHANGED backend_vars
    /\ pc[c] = "respond"
    /\ response' = [response EXCEPT ![c] = PostResponse(task_result[c].status)]
    /\ pc' = [pc EXCEPT ![c] = "done"]
    /\ UNCHANGED <<clock, settings, authorization, body, headers, identity, data, task,
                   task_result, exc, raised, trace, calls, signals>>

(* ------------------------------------------------------------------ *)
(* backend.py: CloudTasksBackend                                       *)
(* ------------------------------------------------------------------ *)

\* The enqueue() calls of the specification BackendSpec.
EnqueueIds == {1, 2}

\* The OPTIONS of the backend: a missing key reads as None.
Options(project, location, target, on_commit) ==
    [PROJECT_ID |-> project, LOCATION |-> location,
     DEFAULT_TARGET |-> target, ENQUEUE_ON_COMMIT |-> on_commit]

\* test_backend.py:44-53 (build_settings), and each required key missing.
BackendOptions ==
    { Options(p, l, t, oc) :
        p \in {PyStr("test-project")}, l \in {PyStr("us-central1")},
        t \in {PyStr("https://example.com/task-handler"), PyNone},
        oc \in BOOLEAN }
    \cup
    { Options(PyNone, PyStr("us-central1"),
              PyStr("https://example.com/task-handler"), FALSE),
      Options(PyStr("test-project"), PyNone,
              PyStr("https://example.com/task-handler"), TRUE) }

\* run_after of a task: None, an absolute time, or a timedelta.
NoRunAfter == [kind |-> "None", n |-> 0]
Datetime(n) == [kind |-> "datetime", n |-> n]
Timedelta(n) == [kind |-> "timedelta", n |-> n]

\* `if task.run_after:`: None and timedelta(0) are falsy.
Truthy(run_after) ==
    CASE run_after.kind = "None" -> FALSE
      [] run_after.kind = "timedelta" -> run_after.n # 0
      [] OTHER -> TRUE

\* A task as enqueue() receives it; valid is what validate_task finds.
TaskDescriptor(path, queue, run_after, valid) ==
    [module_path |-> path, queue_name |-> queue, run_after |-> run_after,
     valid |-> valid]

\* The tasks of the tests (test_backend.py:39-41, example/tasks.py:4).
TestTask(run_after) == TaskDescriptor("tests.test_task", "default", run_after, TRUE)
DoTask(run_after) == TaskDescriptor("example.tasks.do_task", "test-1", run_after, TRUE)
LocalTask == TaskDescriptor("tests.local_task", "default", NoRunAfter, FALSE)

\* The (task, args, kwargs) the model enqueues (test_backend.py:130,
\* test_backend.py:166-169, example/tests.py:14).
EnqueueInputs ==
    { <<TestTask(NoRunAfter), PyList(<<PyInt(1)>>), PyDict(<< <<"a", PyStr("b")>> >>)>>,
      <<TestTask(Datetime(MaxClock + 1)), PyList(<<PyInt(1)>>),
        PyDict(<< <<"a", PyStr("b")>> >>)>>,
      <<DoTask(Timedelta(1)), PyTuple(<<PyInt(1)>>), PyDict(<< <<"b", PyInt(2)>> >>)>>,
      <<DoTask(Timedelta(0)), PyTuple(<<>>), PyDict(<<>>)>>,
      <<LocalTask, PyTuple(<<>>), PyDict(<<>>)>> }

\* What get_random_string(32) may return.
RandomStrings == {"k3Jx", "Zq0P"}

\* self.options.get("PROJECT_ID")
GetProjectId(o) == o.PROJECT_ID

\* self.options.get("LOCATION")
GetLocation(o) == o.LOCATION

\* CloudTasksBackend.get_default_target
GetDefaultTarget(o) ==
    IF o.DEFAULT_TARGET = PyNone THEN Raise("ImproperlyConfigured")
    ELSE Return(o.DEFAULT_TARGET)

\* CloudTasksBackend.get_enqueue_on_commit
GetEnqueueOnCommit(o) == o.ENQUEUE_ON_COMMIT

\* str(v) inside an f-string.
Format(v) == IF v = PyNone THEN "None" ELSE v.s

\* client.queue_path: the segments of
\* projects/{project}/locations/{location}/queues/{queue}
QueuePath(project, location, queue) ==
    <<"projects", Format(project), "locations", Format(location),
      "queues", queue>>

\* client.task_path: the queue path followed by tasks/{task_id}
ClientTaskPath(project, location, queue, task_id) ==
    <<"projects", Format(project), "locations", Format(location),
      "queues", queue, "tasks", task_id>>

\* CloudTasksBackend.get_parent_path
GetParentPath(o, queue_name) ==
    QueuePath(GetProjectId(o), GetLocation(o), queue_name)

\* GetTaskPath with the task's queue name ignored.
GetTaskPathDefaultQueue(o, queue_name, task_id) ==
    ClientTaskPath(GetProjectId(o), GetLocation(o), "default", task_id)

\* CloudTasksBackend.get_task_path
GetTaskPath(o, queue_name, task_id) ==
    ClientTaskPath(GetProjectId(o), GetLocation(o), queue_name, task_id)

\* BaseTaskBackend.validate_task, called at backend.py:82
ValidateTask(tk) == IF tk.valid THEN Return(PyNone) ELSE Raise("InvalidTask")

\* backend.py:85-98: the TaskResult enqueue() creates.
NewTaskResult(tk, id, args, kwargs) ==
    [ task |-> tk.module_path,
      id |-> id,
      status |-> "READY",
      enqueued_at |-> NoTime,
      started_at |-> NoTime,
      last_attempted_at |-> NoTime,
      finished_at |-> NoTime,
      args |-> args,
      kwargs |-> kwargs,
      backend |-> "default",
      errors |-> <<>>,
      worker_ids |-> <<>> ]

NoTaskResult ==
    [ task |-> "", id |-> "", status |-> "NONE", enqueued_at |-> NoTime,
      started_at |-> NoTime, last_attempted_at |-> NoTime,
      finished_at |-> NoTime, args |-> PyNone, kwargs |-> PyNone,
      backend |-> "", errors |-> <<>>, worker_ids |-> <<>> ]

\* TaskData with the keyword arguments left out of the payload.
TaskDataWithoutKwargs(tk, args, kwargs) ==
    PyDict(<< <<"task_path", PyStr(tk.module_path)>>,
              <<"args", args>>,
              <<"kwargs", PyDict(<<>>)>> >>)

\* backend.py:100-104
TaskData(tk, args, kwargs) ==
    PyDict(<< <<"task_path", PyStr(tk.module_path)>>,
              <<"args", args>>,
              <<"kwargs", kwargs>> >>)

\* backend.py:106-114: the cloud_task dict, without a schedule_time yet.
CloudTask(target, name, tk, args, kwargs) ==
    [ http_request |->
        [ http_method |-> "POST",
          url |-> target,
          headers |-> << <<"Content-type", "application/json">> >>,
          body |-> Encode(JsonDumps(TaskData(tk, args, kwargs))) ],
      name |-> name,
      schedule_time |-> NoTime ]

NoCloudTask ==
    [ http_request |->
        [ http_method |-> "", url |-> PyNone, headers |-> <<>>,
          body |-> Encode(<<>>) ],
      name |-> <<>>,
      schedule_time |-> NoTime ]

\* backend.py:119-124: the schedule_time _enqueue attaches, NoTime when
\* it attaches none.
ScheduleTime(run_after, now) ==
    IF ~Truthy(run_after) THEN NoTime
    ELSE IF run_after.kind = "timedelta" THEN At(now + run_after.n)
    ELSE At(run_after.n)

\* backend.py:133: what _enqueue writes to the TaskResult once
\* create_task has returned.
MarkEnqueued(result, now) == [result EXCEPT !.enqueued_at = At(now)]

\* InnerEnqueue with a failure of create_task swallowed: the TaskResult is
\* marked and the event sent as if the call had returned.
InnerEnqueueSwallowsFailure(o, tk, result, cloud_task, now, create_ok, subscriber_raises) ==
    LET ct == [cloud_task EXCEPT
                  !.schedule_time = ScheduleTime(tk.run_after, now)]
        request == [parent |-> GetParentPath(o, tk.queue_name), task |-> ct]
        marked == MarkEnqueued(result, now)
    IN  [requests |-> <<request>>, result |-> marked,
         events |-> <<[signal |-> "task_enqueued", task_result |-> marked]>>,
         raised |-> IF ~create_ok THEN "GoogleAPICallError"
                    ELSE IF subscriber_raises THEN "ReceiverError" ELSE ""]

\* backend.py:116-134, _enqueue: the create_task request it sends, the
\* TaskResult as it leaves it, the task_enqueued events it sends and the
\* exception it raises ("" for none).  create_ok: create_task returns;
\* subscriber_raises: a task_enqueued subscriber raises.
InnerEnqueue(o, tk, result, cloud_task, now, create_ok, subscriber_raises) ==
    LET ct == [cloud_task EXCEPT
                  !.schedule_time = ScheduleTime(tk.run_after, now)]
        request == [parent |-> GetParentPath(o, tk.queue_name), task |-> ct]
        marked == MarkEnqueued(result, now)
    IN  IF ~create_ok
        THEN [requests |-> <<request>>, result |-> result, events |-> <<>>,
              raised |-> "GoogleAPICallError"]
        ELSE [requests |-> <<request>>, result |-> marked,
              events |-> <<[signal |-> "task_enqueued", task_result |-> marked]>>,
              raised |-> IF subscriber_raises THEN "ReceiverError" ELSE ""]

\* Deferred with the ENQUEUE_ON_COMMIT option ignored: _enqueue always runs
\* inside enqueue().
DeferredNever(o, tk) == FALSE

\* backend.py:136-139: whether _enqueue is handed to transaction.on_commit.
Deferred(o, tk) == GetEnqueueOnCommit(o)

\* Prepare with validate_task and the default-target lookup put off: the
\* task is taken as it is and the url left absent.
PrepareWithoutValidation(o, tk, args, kwargs, random) ==
    LET result == NewTaskResult(tk, random, args, kwargs) IN
    Return([result |-> result,
            cloud_task |-> CloudTask(o.DEFAULT_TARGET,
                              GetTaskPath(o, tk.queue_name, result.id),
                              tk, args, kwargs)])

\* backend.py:82-114, the part of enqueue() before _enqueue: Raise(exc), or
\* Return of the TaskResult and the cloud_task built for it.
Prepare(o, tk, args, kwargs, random) ==
    LET v == ValidateTask(tk)
        target == GetDefaultTarget(o)
    IN  IF v.kind = "raise" THEN v
        ELSE IF target.kind = "raise" THEN target
        ELSE LET result == NewTaskResult(tk, random, args, kwargs) IN
             Return([result |-> result,
                     cloud_task |-> CloudTask(target.value,
                                       GetTaskPath(o, tk.queue_name, result.id),
                                       tk, args, kwargs)])

\* An enqueue() call that has not been made.
NoCall ==
    [ state |-> "none", task |-> TaskDescriptor("", "", NoRunAfter, FALSE),
      result |-> NoTaskResult, cloud_task |-> NoCloudTask, raised |-> "",
      txn |-> "", block |-> 0, hook |-> "", called_at |-> 0 ]

BackendInit ==
    /\ options \in BackendOptions
    /\ in_atomic_block = FALSE
    /\ run_on_commit = <<>>
    /\ committing = <<>>
    /\ enq = [e \in EnqueueIds |-> NoCall]
    /\ create_calls = <<>>
    /\ enqueued_signals = <<>>

\* The effect of one run of _enqueue for call e on the client, the
\* subscribers and the TaskResult of the call.
ApplyInner(e, r) ==
    /\ create_calls' = create_calls \o
          [i \in DOMAIN r.requests |->
              [owner |-> e, request |-> r.requests[i],
               returned |-> r.raised # "GoogleAPICallError",
               in_atomic_block |-> in_atomic_block]]
    /\ enqueued_signals' = enqueued_signals \o
          [i \in DOMAIN r.events |->
              [owner |-> e, signal |-> r.events[i].signal,
               task_result |-> r.events[i].task_result,
               in_atomic_block |-> in_atomic_block]]

\* CloudTasksBackend.enqueue (backend.py:81-141).  With ENQUEUE_ON_COMMIT
\* and a transaction open, _enqueue is registered as a commit hook; with
\* no transaction open transaction.on_commit runs it at once.
\* The record of a call keeps, as `block`, the first call made in the
\* atomic block it was made in (0 outside of one).
Enqueue(e) ==
    /\ UNCHANGED view_vars
    /\ enq[e].state = "none"
    /\ \A d \in EnqueueIds : d < e => enq[d].state # "none"
    /\ committing = <<>>
    /\ \E in \in EnqueueInputs, random \in RandomStrings :
         LET tk == in[1]
             p == Prepare(options, tk, in[2], in[3], random)
             txn == IF in_atomic_block THEN "open" ELSE "outside"
             block == IF in_atomic_block
                      THEN CHOOSE d \in EnqueueIds :
                             /\ d = e \/ enq[d].txn = "open"
                             /\ \A c \in EnqueueIds :
                                   enq[c].txn = "open" => d <= c
                      ELSE 0
         IN
         IF p.kind = "raise"
         THEN /\ enq' = [enq EXCEPT ![e] =
                           [NoCall EXCEPT !.state = "raised", !.task = tk,
                                          !.raised = p.exc, !.txn = txn,
                                          !.block = block,
                                          !.called_at = clock]]
              /\ UNCHANGED <<run_on_commit, create_calls, enqueued_signals>>
         ELSE IF Deferred(options, tk) /\ in_atomic_block
         THEN /\ run_on_commit' = Append(run_on_commit, e)
              /\ enq' = [enq EXCEPT ![e] =
                           [state |-> "returned", task |-> tk,
                            result |-> p.value.result,
                            cloud_task |-> p.value.cloud_task,
                            raised |-> "", txn |-> txn, block |-> block,
                            hook |-> "registered",
                            called_at |-> clock]]
              /\ UNCHANGED <<create_calls, enqueued_signals>>
         ELSE \E create_ok \in BOOLEAN, subscriber_raises \in BOOLEAN :
              LET r == InnerEnqueue(options, tk, p.value.result,
                                    p.value.cloud_task, clock, create_ok,
                                    subscriber_raises) IN
              /\ ApplyInner(e, r)
              /\ enq' = [enq EXCEPT ![e] =
                           [state |-> IF r.raised = "" THEN "returned"
                                                      ELSE "raised",
                            task |-> tk,
                            result |-> r.result,
                            cloud_task |-> p.value.cloud_task,
                            raised |-> r.raised, txn |-> txn, block |-> block,
                            hook |-> "",
                            called_at |-> clock]]
              /\ UNCHANGED run_on_commit
    /\ UNCHANGED <<clock, options, in_atomic_block, committing>>

\* `with transaction.atomic():` is entered (test_backend.py:186).
Begin ==
    /\ UNCHANGED view_vars
    /\ ~in_atomic_block
    /\ committing = <<>>
    /\ in_atomic_block' = TRUE
    /\ UNCHANGED <<clock, options, run_on_commit, committing, enq,
                   create_calls, enqueued_signals>>

\* Commit with the hooks handed over in the reverse of the order of their
\* registration.
CommitReversed ==
    /\ UNCHANGED view_vars
    /\ in_atomic_block
    /\ in_atomic_block' = FALSE
    /\ committing' = [i \in DOMAIN run_on_commit |->
                         run_on_commit[Len(run_on_commit) + 1 - i]]
    /\ run_on_commit' = <<>>
    /\ enq' = [e \in EnqueueIds |->
                 IF enq[e].txn = "open"
                 THEN [enq[e] EXCEPT !.txn = "committed"] ELSE enq[e]]
    /\ UNCHANGED <<clock, options, create_calls, enqueued_signals>>

\* The atomic block exits normally: the transaction commits and its
\* hooks are handed over to be run, in the order of their registration.
Commit ==
    /\ UNCHANGED view_vars
    /\ in_atomic_block
    /\ in_atomic_block' = FALSE
    /\ committing' = run_on_commit
    /\ run_on_commit' = <<>>
    /\ enq' = [e \in EnqueueIds |->
                 IF enq[e].txn = "open"
                 THEN [enq[e] EXCEPT !.txn = "committed"] ELSE enq[e]]
    /\ UNCHANGED <<clock, options, create_calls, enqueued_signals>>

\* The atomic block exits with an exception: the transaction rolls back
\* and its hooks are discarded.
Rollback ==
    /\ UNCHANGED view_vars
    /\ in_atomic_block
    /\ in_atomic_block' = FALSE
    /\ run_on_commit' = <<>>
    /\ enq' = [e \in EnqueueIds |->
                 IF enq[e].txn = "open"
                 THEN [enq[e] EXCEPT !.txn = "rolled_back",
                          !.hook = IF @ = "registered" THEN "discarded" ELSE @]
                 ELSE enq[e]]
    /\ UNCHANGED <<clock, options, committing, create_calls, enqueued_signals>>

\* After the commit the next hook runs: _enqueue of the call that
\* registered it (backend.py:116-134).  on_commit hooks are not robust:
\* when one raises, the hooks after it are not run.
RunCommitHook ==
    /\ UNCHANGED view_vars
    /\ committing # <<>>
    /\ \E create_ok \in BOOLEAN, subscriber_raises \in BOOLEAN :
         LET e == Head(committing)
             r == InnerEnqueue(options, enq[e].task, enq[e].result,
                               enq[e].cloud_task, clock, create_ok,
                               subscriber_raises)
         IN
         /\ ApplyInner(e, r)
         /\ committing' = IF r.raised = "" THEN Tail(committing) ELSE <<>>
         /\ enq' = [d \in EnqueueIds |->
               IF d = e
               THEN [enq[d] EXCEPT !.result = r.result,
                        !.hook = IF r.raised = "" THEN "ran" ELSE "failed"]
               ELSE IF r.raised # "" /\ \E i \in DOMAIN committing : committing[i] = d
               THEN [enq[d] EXCEPT !.hook = "dropped"]
               ELSE enq[d]]
    /\ UNCHANGED <<clock, options, in_atomic_block, run_on_commit>>

\* Time passes.
Tick ==
    /\ clock < MaxClock
    /\ clock' = clock + 1
    /\ UNCHANGED <<view_vars, backend_vars>>

(* ------------------------------------------------------------------ *)
(* Specifications                                                      *)
(* ------------------------------------------------------------------ *)

vars == <<clock, view_vars, backend_vars>>

ViewNext ==
    \E c \in Callbacks :
        \/ Receive(c)
        \/ Authenticate(c)
        \/ Parse(c)
        \/ Validate(c)
        \/ ResolveTask(c)
        \/ BuildTaskResult(c)
        \/ SendTaskStarted(c)
        \/ CallTask(c)
        \/ SendTaskFinished(c)
        \/ HandleException(c)
        \/ SendTaskFinishedExcept(c)
        \/ Respond(c)

BackendNext ==
    \/ \E e \in EnqueueIds : Enqueue(e)
    \/ Begin
    \/ Commit
    \/ Rollback
    \/ RunCommitHook

\* The execute path: callbacks against a view whose backend is idle.
Init ==
    /\ ViewInit
    /\ BackendInit
    /\ options = Options(PyStr("test-project"), PyStr("us-central1"),
                         PyStr("https://example.com/task-handler"), FALSE)

Next == Tick \/ ViewNext

Spec == Init /\ [][Next]_vars

\* The enqueue path: enqueue() calls and transactions, with no callback.
BackendSpecInit ==
    /\ ViewInit
    /\ BackendInit
    /\ settings = [backend_name |-> "",
                   TASKS |-> <<Backend("default", TRUE, "None", "")>>]

BackendSpecNext == Tick \/ BackendNext

BackendSpec == BackendSpecInit /\ [][BackendSpecNext]_vars

\* The retry-count header of a request the queue dispatches: the number
\* of attempts made before this one.
DispatchRetryCounts == {PyStr(ToString(n)) : n \in 0..MaxRetry}

\* The queue dispatches the task of a create_task call that returned: a
\* POST to the view with the body of the request (backend.py:108-112).
Dispatch(c) ==
    \E i \in DOMAIN create_calls :
        /\ create_calls[i].returned
        /\ Deliver(c, {<<>>}, {create_calls[i].request.task.http_request.body})

\* get_task_result for a dispatched request.
BuildDispatchedTaskResult(c) ==
    GetTaskResultStep(c, TaskNameHeaders, DispatchRetryCounts)

\* The wire: one enqueue() call outside of a transaction, and a callback
\* the queue dispatches for the request it created.
WireSpecInit ==
    /\ ViewInit
    /\ BackendInit
    /\ settings = [backend_name |-> "",
                   TASKS |-> <<Backend("default", TRUE, "None", "")>>]
    /\ options = Options(PyStr("test-project"), PyStr("us-central1"),
                         PyStr("https://example.com/task-handler"), FALSE)

WireSpecNext ==
    \/ Tick
    \/ Enqueue(1)
    \/ \E c \in Callbacks :
          \/ Dispatch(c)
          \/ Authenticate(c)
          \/ Parse(c)
          \/ Validate(c)
          \/ ResolveTask(c)
          \/ BuildDispatchedTaskResult(c)
          \/ SendTaskStarted(c)
          \/ CallTask(c)
          \/ SendTaskFinished(c)
          \/ HandleException(c)
          \/ SendTaskFinishedExcept(c)
          \/ Respond(c)

WireSpec == WireSpecInit /\ [][WireSpecNext]_vars

\* Two callbacks the view serves at the same time, and what they carry:
\* no Authorization header, the body and the task-name header of
\* test_views.py:148-154, and a first or a second attempt.
ConcurrentCallbacks == {1, 2}
ConcurrentBodies ==
    {Encode(JsonDumps(Envelope("tests.test_task", <<>>, <<>>)))}
ConcurrentNames == {PyStr("test-task-id")}
ConcurrentRetryCounts == {PyNone, PyStr("1")}

\* Concurrent callbacks: the steps of the two posts interleave freely.
ConcurrentSpecInit ==
    /\ ViewInitOf(ConcurrentCallbacks)
    /\ BackendInit
    /\ settings = [backend_name |-> "",
                   TASKS |-> <<Backend("default", TRUE, "None", "")>>]
    /\ options = Options(PyStr("test-project"), PyStr("us-central1"),
                         PyStr("https://example.com/task-handler"), FALSE)

ConcurrentSpecNext ==
    \/ Tick
    \/ \E c \in ConcurrentCallbacks :
          \/ Deliver(c, {<<>>}, ConcurrentBodies)
          \/ Authenticate(c)
          \/ Parse(c)
          \/ Validate(c)
          \/ ResolveTask(c)
          \/ GetTaskResultStep(c, ConcurrentNames, ConcurrentRetryCounts)
          \/ SendTaskStarted(c)
          \/ CallTask(c)
          \/ SendTaskFinished(c)
          \/ HandleException(c)
          \/ SendTaskFinishedExcept(c)
          \/ Respond(c)

ConcurrentSpec == ConcurrentSpecInit /\ [][ConcurrentSpecNext]_vars

(* ------------------------------------------------------------------ *)
(* Properties of the execute path (specification Spec)                 *)
(* ------------------------------------------------------------------ *)

Occurs(seq, x) == \E i \in DOMAIN seq : seq[i] = x
Count(seq, x) == Cardinality({i \in DOMAIN seq : seq[i] = x})
SignalNames(c) == [i \in DOMAIN signals[c] |-> signals[c][i].signal]

\* post has got past the call of self.authenticate for callback c.
Authenticated(c) == pc[c] \notin {"idle", "authenticate"}

\* authenticate returned (did not raise) and returned None.
NoIdentity(c) == identity[c] = PyNone

\* authenticate returned an identity.
HasIdentity(c) == identity[c] \notin {NotAuthenticated, PyNone}

\* C1: a callback whose authenticator returns no identity gets the
\* response 401 {"success": false} and nothing else happens for it: the
\* body is not parsed or validated, no task is resolved, no TaskResult is
\* constructed, no lifecycle event is sent and the task body is not
\* invoked.  In every run the body is parsed only after authenticate.
C1_RefusedBeforeParsing ==
    \A c \in Callbacks :
        /\ NoIdentity(c) =>
              /\ pc[c] = "done"
              /\ raised[c] = ""
              /\ response[c] = JsonResponse(FALSE, 401)
              /\ trace[c] = <<"authenticate">>
              /\ data[c] = PyNone
              /\ task[c] = NoTask
              /\ task_result[c] = NoResult
              /\ signals[c] = <<>>
              /\ calls[c] = <<>>
        /\ \A i \in DOMAIN trace[c] :
              trace[c][i] = "parse_content" =>
                  \E j \in 1..(i - 1) : trace[c][j] = "authenticate"

C1_Witness ==
    \E c \in Callbacks :
        NoIdentity(c) /\ response[c].status_code = 401

\* The authenticator that governs the view is an OIDCTokenAuth.
GovernedByOIDC ==
    LET b == ResolveBackend(settings) IN
    /\ b.kind = "return"
    /\ b.value.VIEW_AUTHN = "OIDCTokenAuth"

GoverningEmail == ResolveBackend(settings).value.sae

\* The header carries a token the verifier accepts for the configured
\* principal.
Verifiable(sae, h) ==
    /\ Len(h) >= 2
    /\ VerifyOauth2Token(h[2]).kind = "return"
    /\ sae # "" => /\ "email" \in DOMAIN VerifyOauth2Token(h[2]).value
                    /\ VerifyOauth2Token(h[2]).value.email = sae

\* C2: with the bearer-token authenticator, every request that fails
\* authentication (header missing, header malformed, token rejected,
\* principal mismatch) has the same outcome: 401, {"success": false}, no
\* exception.
C2_UniformAuthFailure ==
    \A c \in Callbacks :
        ( /\ GovernedByOIDC
          /\ Authenticated(c)
          /\ ~Verifiable(GoverningEmail, authorization[c]) )
        => /\ pc[c] = "done"
           /\ raised[c] = ""
           /\ response[c] = JsonResponse(FALSE, 401)

\* C3: OIDCTokenAuth.authenticate returns None and never raises for a
\* request that carries no verifiable bearer token.
C3_AuthenticateNeverRaises ==
    \A c \in Callbacks :
        ( /\ GovernedByOIDC
          /\ Occurs(trace[c], "authenticate")
          /\ ~Verifiable(GoverningEmail, authorization[c]) )
        => /\ raised[c] # "IndexError"
           /\ identity[c] = PyNone

\* C4: with a principal configured, authenticate returns an identity only
\* if the token was verified and its email claim equals the principal (a
\* missing or different email gives None); an identity it returns is
\* exactly the verifier's claim set.
C4_PrincipalChecked ==
    \A c \in Callbacks :
        (GovernedByOIDC /\ HasIdentity(c)) =>
            LET h == authorization[c]
                v == VerifyOauth2Token(h[2])
            IN  /\ Len(h) >= 2
                /\ v.kind = "return"
                /\ identity[c] = [t |-> "idinfo", claims |-> v.value]
                /\ GoverningEmail # "" =>
                      /\ "email" \in DOMAIN v.value
                      /\ v.value.email = GoverningEmail

C4_Witness ==
    \E c \in Callbacks :
        /\ GovernedByOIDC /\ GoverningEmail # ""
        /\ HasIdentity(c)
        /\ identity[c].claims.email = GoverningEmail

\* The task body has been invoked for callback c.
Executed(c) == Occurs(trace[c], "call")

\* C5: a callback that reaches task execution gets a response
\* and post does not raise: 200 {"success": true} iff the TaskResult ends
\* SUCCESSFUL, 400 {"success": false} iff it ends FAILED.
C5_AlwaysResponds ==
    \A c \in Callbacks :
        (Executed(c) /\ pc[c] = "done") =>
            /\ raised[c] = ""
            /\ response[c] = JsonResponse(TRUE, 200)
                  <=> task_result[c].status = "SUCCESSFUL"
            /\ response[c] = JsonResponse(FALSE, 400)
                  <=> task_result[c].status = "FAILED"

\* C6: a callback that reaches task execution sends exactly one
\* task_started and then exactly one task_finished, both carrying the
\* callback's TaskResult, the first before and the second after the task
\* body runs, whatever the body and the subscribers do.
C6_OneStartOneFinish ==
    \A c \in Callbacks :
        (Executed(c) /\ pc[c] = "done") =>
            /\ SignalNames(c) = <<"task_started", "task_finished">>
            /\ \A i \in DOMAIN signals[c] : signals[c][i].owner = c
            /\ \E i, j, k \in DOMAIN trace[c] :
                  /\ i < j /\ j < k
                  /\ trace[c][i] = "task_started"
                  /\ trace[c][j] = "call"
                  /\ trace[c][k] = "task_finished"

\* C7: the status of a TaskResult never regresses: created RUNNING, it
\* makes at most one transition, to SUCCESSFUL or to FAILED, and once
\* SUCCESSFUL or FAILED it never changes again.
C7_StatusNeverRegresses ==
    [][\A c \in Callbacks :
          /\ task_result[c].status \in {"SUCCESSFUL", "FAILED"} =>
                task_result'[c].status = task_result[c].status
          /\ task_result[c].status = "RUNNING" =>
                task_result'[c].status \in {"RUNNING", "SUCCESSFUL", "FAILED"}]_vars

\* post has ended for callback c, by a response or by raising.
Done(c) == pc[c] = "done"

\* The last step post executed for callback c.
LastStep(c) == IF trace[c] = <<>> THEN "" ELSE trace[c][Len(trace[c])]

\* The callback was authenticated, its body parsed and validated, its task
\* resolved and its headers read: the retry-count header is absent or a
\* number.
WellFormed(c) ==
    /\ HasIdentity(c)
    /\ task[c] # NoTask
    /\ headers[c].read
    /\ RetryCount(headers[c].retry).kind = "return"

\* post ended in authentication, parsing, validation or task resolution.
FailedEarly(c) ==
    /\ Done(c)
    /\ LastStep(c) \in {"authenticate", "parse_content", "validate_input",
                        "get_task"}

\* C11: an authenticated, well-formed callback has the task body invoked
\* exactly once; a callback that fails authentication, parsing, validation
\* or task resolution has it invoked zero times; the body is never invoked
\* twice within one callback.
C11_InvokedExactlyOnce ==
    \A c \in Callbacks :
        /\ Len(calls[c]) <= 1
        /\ FailedEarly(c) => calls[c] = <<>>
        /\ (WellFormed(c) /\ Done(c)) => Len(calls[c]) = 1

\* get_task has been called for callback c with a task_path that does not
\* resolve, or that resolves to something that is not a task.
Unresolvable(c) ==
    /\ Occurs(trace[c], "get_task")
    /\ LET o == ImportString(DictGet(data[c], "task_path").s) IN
       o.kind = "raise" \/ o.value.t # "Task"

\* C12: a callback whose task_path does not resolve, or resolves to
\* something that is not a task, ends with SuspiciousOperation raised,
\* before any TaskResult is constructed, any lifecycle event is sent or
\* the task body is invoked.
C12_SuspiciousInputRaised ==
    \A c \in Callbacks :
        Unresolvable(c) =>
            /\ Done(c)
            /\ raised[c] = "SuspiciousOperation"
            /\ response[c] = NoResponse
            /\ task_result[c] = NoResult
            /\ signals[c] = <<>>
            /\ calls[c] = <<>>

\* The parsed body d lacks task_path, args or kwargs, or has a task_path
\* that is no string, args that are no list or kwargs that are no dict.
Malformed(d) ==
    \/ d.t # "dict"
    \/ {"task_path", "args", "kwargs"} \ DictKeys(d) # {}
    \/ DictGet(d, "task_path").t # "str"
    \/ DictGet(d, "args").t # "list"
    \/ DictGet(d, "kwargs").t # "dict"

\* validate_input has been called for callback c.
ValidationReached(c) == Occurs(trace[c], "validate_input")

\* C13: a callback whose parsed body lacks a field or has a field of the
\* wrong type ends with a client error raised by validate_input (a
\* ValueError for a JSON object), before the task is resolved: no task, no
\* TaskResult, no lifecycle event, no invocation.  A body with empty args
\* and empty kwargs passes validation.
C13_MalformedRejected ==
    \A c \in Callbacks :
        ValidationReached(c) =>
            /\ Malformed(data[c]) =>
                  /\ Done(c)
                  /\ LastStep(c) = "validate_input"
                  /\ raised[c] \in {"ValueError", "TypeError"}
                  /\ data[c].t = "dict" => raised[c] = "ValueError"
                  /\ response[c] = NoResponse
                  /\ task[c] = NoTask
                  /\ task_result[c] = NoResult
                  /\ signals[c] = <<>>
                  /\ calls[c] = <<>>
            /\ ~Malformed(data[c]) =>
                  ~(Done(c) /\ LastStep(c) = "validate_input")

C13_Witness ==
    \E c \in Callbacks :
        /\ ValidationReached(c)
        /\ data[c].t = "dict" /\ "kwargs" \notin DictKeys(data[c])
        /\ raised[c] = "ValueError"

C13_WitnessEmptyAccepted ==
    \E c \in Callbacks :
        /\ data[c] = Envelope("tests.test_task", <<>>, <<>>)
        /\ Occurs(trace[c], "get_task")

\* get_task_result has constructed the TaskResult of callback c.
Constructed(c) == task_result[c] # NoResult

\* C14: the TaskResult of a callback takes retry_count from the
\* retry-count header and has attempts = retry_count + 1: header n gives
\* retry_count n and attempts n + 1, no header gives 0 and 1; the value
\* does not change during the callback.
C14_AttemptsFromHeader ==
    /\ [](\A c \in Callbacks :
            Constructed(c) =>
                /\ Attempts(task_result[c]) = task_result[c].retry_count + 1
                /\ headers[c].retry = PyNone =>
                      /\ task_result[c].retry_count = 0
                      /\ Attempts(task_result[c]) = 1
                /\ \A n \in 0..MaxRetry :
                      headers[c].retry = PyStr(ToString(n)) =>
                          /\ task_result[c].retry_count = n
                          /\ Attempts(task_result[c]) = n + 1)
    /\ [][\A c \in Callbacks :
            Constructed(c) =>
                task_result'[c].retry_count = task_result[c].retry_count]_vars

C14_Witness ==
    \E c \in Callbacks :
        /\ Constructed(c) /\ Done(c)
        /\ headers[c].retry = PyStr("2")
        /\ task_result[c].retry_count = 2
        /\ Attempts(task_result[c]) = 3

\* The positions in TASKS of the backends that can govern the view: the
\* one with the configured name, or every CloudTasksBackend.
Candidates ==
    IF settings.backend_name # ""
    THEN {i \in DOMAIN settings.TASKS :
             settings.TASKS[i].alias = settings.backend_name}
    ELSE {i \in DOMAIN settings.TASKS : settings.TASKS[i].cloud}

\* The backend the claim names as governing: the first candidate in
\* configuration order.
Governing ==
    settings.TASKS[CHOOSE i \in Candidates : \A j \in Candidates : i <= j]

\* C16: the view is governed by the named backend if one is named,
\* otherwise by the first CloudTasksBackend in configuration order, and it
\* is that backend's authenticator that decides; if the named backend is
\* not configured or no CloudTasksBackend exists, post raises
\* ImproperlyConfigured and nothing is authenticated, parsed or executed.
C16_GoverningBackend ==
    \A c \in Callbacks :
        Authenticated(c) =>
            /\ Candidates = {} =>
                  /\ Done(c)
                  /\ raised[c] = "ImproperlyConfigured"
                  /\ identity[c] = NotAuthenticated
                  /\ response[c] = NoResponse
                  /\ trace[c] = <<"authenticate">>
                  /\ data[c] = PyNone
                  /\ signals[c] = <<>>
                  /\ calls[c] = <<>>
            /\ Candidates # {} =>
                  /\ Governing.VIEW_AUTHN = "None" =>
                        identity[c] = AnonymousUser
                  /\ Governing.VIEW_AUTHN = "OIDCTokenAuth" =>
                        /\ identity[c] # AnonymousUser
                        /\ HasIdentity(c) =>
                              Verifiable(Governing.sae, authorization[c])
                  /\ Governing.VIEW_AUTHN \in {"<unset>", "NotAViewAuth"} =>
                        raised[c] = "ImproperlyConfigured"

C16_Witness ==
    \E c \in Callbacks :
        /\ Authenticated(c)
        /\ settings.backend_name = "not_configured"
        /\ raised[c] = "ImproperlyConfigured"

\* What the claim requires of a TaskResult r whose task body raised.
FailedRecord(r) ==
    /\ r.status = "FAILED"
    /\ ~r.finished_at.is_none
    /\ Len(r.errors) = 1
    /\ r.errors[1].exception_class_path = "builtins.ValueError"
    /\ r.errors[1].traceback # <<>>

\* What the claim requires of a TaskResult r whose task body returned.
SuccessfulRecord(r) ==
    /\ r.status = "SUCCESSFUL"
    /\ ~r.finished_at.is_none
    /\ r.errors = <<>>
    /\ r.has_return_value
    /\ r.return_value = PyBool(TRUE)

\* The task body of callback c returned: its value was stored.
BodyReturned(c) == task_result[c].has_return_value

\* The task body of callback c raised.
BodyRaised(c) ==
    /\ Executed(c)
    /\ ~BodyReturned(c)
    /\ pc[c] # "task_finished"

\* C18: when the task body raises, the TaskResult carried by task_finished
\* and the TaskResult at response time are FAILED with finished_at set and
\* exactly one error record; when it returns normally they are SUCCESSFUL
\* with finished_at set, no error record and the returned value.
C18_TerminalRecord ==
    \A c \in Callbacks :
        /\ \A i \in DOMAIN signals[c] :
              signals[c][i].signal = "task_finished" =>
                  /\ BodyRaised(c) => FailedRecord(signals[c][i].task_result)
                  /\ BodyReturned(c) =>
                        SuccessfulRecord(signals[c][i].task_result)
        /\ (Done(c) /\ response[c] # NoResponse /\ Executed(c)) =>
              /\ BodyRaised(c) => FailedRecord(task_result[c])
              /\ BodyReturned(c) => SuccessfulRecord(task_result[c])

\* Timestamp field t is absent, or keeps its value in the next state.
WrittenOnce(t, next) == ~t.is_none => next = t

\* C22: a timestamp of a TaskResult is written at most once, from absent
\* to present: started_at and finished_at of a callback's TaskResult and
\* enqueued_at of an enqueue() call's TaskResult never change once set,
\* and a callback that has answered has finished_at set.
C22_TimestampsWrittenOnce ==
    /\ [][\A c \in Callbacks :
            /\ WrittenOnce(task_result[c].started_at,
                           task_result'[c].started_at)
            /\ WrittenOnce(task_result[c].finished_at,
                           task_result'[c].finished_at)]_vars
    /\ [][\A e \in EnqueueIds :
            WrittenOnce(enq[e].result.enqueued_at,
                        enq'[e].result.enqueued_at)]_vars
    /\ [](\A c \in Callbacks :
            (Done(c) /\ response[c] # NoResponse /\ Executed(c)) =>
                ~task_result[c].finished_at.is_none)

(* ------------------------------------------------------------------ *)
(* Properties of the enqueue path (specification BackendSpec)          *)
(* ------------------------------------------------------------------ *)

\* The create_task calls and the task_enqueued events of call e.
RequestsOf(e) == {i \in DOMAIN create_calls : create_calls[i].owner = e}
EventsOf(e) == {i \in DOMAIN enqueued_signals : enqueued_signals[i].owner = e}

\* The backend has every required option.
Configured ==
    /\ options.PROJECT_ID # PyNone
    /\ options.LOCATION # PyNone
    /\ options.DEFAULT_TARGET # PyNone

\* Call e was made with ENQUEUE_ON_COMMIT inside a transaction, and got
\* as far as handing _enqueue over.
DeferredCall(e) ==
    /\ options.ENQUEUE_ON_COMMIT
    /\ enq[e].txn \in {"open", "committed", "rolled_back"}
    /\ enq[e].state # "none"
    /\ enq[e].raised \notin {"InvalidTask", "ImproperlyConfigured"}

\* The create_task calls of call e that returned.
CreatedOf(e) == {i \in RequestsOf(e) : create_calls[i].returned}

\* The commit has run (or dropped) every hook it had to run.
CommitDone == committing = <<>>

\* Nothing was sent for call e while a transaction was open.
NothingSentInTransaction(e) ==
    /\ \A i \in RequestsOf(e) : ~create_calls[i].in_atomic_block
    /\ \A i \in EventsOf(e) : ~enqueued_signals[i].in_atomic_block

\* C8 as stated: with ENQUEUE_ON_COMMIT, for an enqueue() inside a
\* transaction no request is sent and no task_enqueued event is emitted
\* while the transaction is open; exactly one request and one event occur
\* after the commit; none ever occur if the transaction rolls back.
C8_ExactlyOneAfterCommit ==
    \A e \in EnqueueIds :
        (Configured /\ DeferredCall(e)) =>
            /\ NothingSentInTransaction(e)
            /\ enq[e].txn \in {"open", "rolled_back"} =>
                  RequestsOf(e) = {} /\ EventsOf(e) = {}
            /\ (enq[e].txn = "committed" /\ CommitDone) =>
                  /\ Cardinality(RequestsOf(e)) = 1
                  /\ Cardinality(EventsOf(e)) = 1

\* C8 as amended: nothing is sent while the transaction is open or if it
\* rolls back; after the commit the hook of each call runs at most once:
\* when its create-call succeeds it has sent exactly one request and one
\* event, when its create-call fails one request and no event, and when
\* an earlier hook raised it is dropped and sends nothing.
C8_AtMostOneAfterCommit ==
    \A e \in EnqueueIds :
        DeferredCall(e) =>
            /\ NothingSentInTransaction(e)
            /\ enq[e].txn \in {"open", "rolled_back"} =>
                  RequestsOf(e) = {} /\ EventsOf(e) = {}
            /\ (enq[e].txn = "committed" /\ CommitDone) =>
                  /\ Cardinality(RequestsOf(e)) <= 1
                  /\ Cardinality(EventsOf(e)) = Cardinality(CreatedOf(e))
                  /\ enq[e].hook \in {"ran", "failed", "dropped"}
                  /\ enq[e].hook = "ran" =>
                        /\ Cardinality(RequestsOf(e)) = 1
                        /\ Cardinality(EventsOf(e)) = 1
                  /\ enq[e].hook = "failed" =>
                        Cardinality(RequestsOf(e)) = 1
                  /\ enq[e].hook = "dropped" =>
                        /\ RequestsOf(e) = {} /\ EventsOf(e) = {}
                        /\ \E d \in EnqueueIds : d < e /\ enq[d].hook = "failed"

C8_Witness ==
    \E e \in EnqueueIds :
        /\ DeferredCall(e)
        /\ enq[e].txn = "committed" /\ CommitDone
        /\ enq[e].hook = "ran"
        /\ Cardinality(RequestsOf(e)) = 1
        /\ Cardinality(EventsOf(e)) = 1

\* Call e ran _enqueue inside enqueue() and returned to its caller.
ReturnedNotDeferred(e) ==
    /\ enq[e].state = "returned"
    /\ ~options.ENQUEUE_ON_COMMIT

\* C9: when the create-call succeeds the TaskResult goes from READY to
\* ENQUEUED with enqueued_at set, and the task_enqueued event carries it
\* after that transition: the TaskResult a non-deferred enqueue() returns
\* has status ENQUEUED and enqueued_at set.
C9_ReturnedEnqueued ==
    \A e \in EnqueueIds :
        (Configured /\ ReturnedNotDeferred(e)) =>
            /\ enq[e].result.status = "ENQUEUED"
            /\ ~enq[e].result.enqueued_at.is_none
            /\ \A i \in EventsOf(e) :
                  /\ enqueued_signals[i].task_result.status = "ENQUEUED"
                  /\ ~enqueued_signals[i].task_result.enqueued_at.is_none

\* The JSON text of {"task_path": path, "args": args, "kwargs": kwargs}.
EnvelopeText(path, args, kwargs) ==
    <<"{", "\"task_path\"", ":", "\"" \o path \o "\"", ",", "\"args\"", ":">>
    \o JsonDumps(args)
    \o <<",", "\"kwargs\"", ":">>
    \o JsonDumps(kwargs)
    \o <<"}">>

Called(e) == enq[e].state # "none"

\* C15: a missing required setting fails with ImproperlyConfigured where
\* it is first used: get_project_id, get_location, get_default_target and
\* get_view_authn each raise for their missing option, and an enqueue()
\* with project id, location or default target missing raises and sends
\* no request.
C15_MissingSettingFails ==
    /\ \A st \in ViewSettings : \A i \in DOMAIN st.TASKS :
          st.TASKS[i].VIEW_AUTHN = "<unset>" =>
              GetViewAuthn(st.TASKS[i]) = Raise("ImproperlyConfigured")
    /\ \A e \in EnqueueIds :
          (Called(e) /\ ~Configured) =>
              /\ options.PROJECT_ID = PyNone =>
                    GetProjectId(options) = Raise("ImproperlyConfigured")
              /\ options.LOCATION = PyNone =>
                    GetLocation(options) = Raise("ImproperlyConfigured")
              /\ options.DEFAULT_TARGET = PyNone =>
                    GetDefaultTarget(options) = Raise("ImproperlyConfigured")
              /\ enq[e].task.valid =>
                    /\ enq[e].state = "raised"
                    /\ enq[e].raised = "ImproperlyConfigured"
              /\ RequestsOf(e) = {}

\* The create_task calls of call e that raised.
FailedOf(e) == RequestsOf(e) \ CreatedOf(e)

\* C17: when the create-call of an enqueue() fails, its TaskResult stays
\* READY with enqueued_at absent, no task_enqueued event is sent, the
\* create-call is not made again, and unless _enqueue was deferred to the
\* commit the failure is what enqueue() raises.
C17_CreateFailurePropagates ==
    \A e \in EnqueueIds :
        FailedOf(e) # {} =>
            /\ enq[e].result.status = "READY"
            /\ enq[e].result.enqueued_at.is_none
            /\ EventsOf(e) = {}
            /\ Cardinality(RequestsOf(e)) = 1
            /\ ~DeferredCall(e) =>
                  /\ enq[e].state = "raised"
                  /\ enq[e].raised = "GoogleAPICallError"

C17_Witness ==
    \E e \in EnqueueIds :
        /\ FailedOf(e) # {}
        /\ ~options.ENQUEUE_ON_COMMIT
        /\ enq[e].raised = "GoogleAPICallError"

\* The schedule_time of create_task call i.
ScheduleTimeOf(i) == create_calls[i].request.task.schedule_time

\* C19: in a configured backend, for a run_after that is a duration D
\* (D > 0), the request's
\* schedule time is the time enqueue() was called plus D, with and without
\* ENQUEUE_ON_COMMIT; an absolute run_after is attached unchanged; a task
\* without run_after has a request without schedule time.
C19_ScheduleTime ==
    \A e \in EnqueueIds : \A i \in RequestsOf(e) :
        LET run_after == enq[e].task.run_after IN
        Configured =>
        /\ (run_after.kind = "timedelta" /\ run_after.n > 0) =>
              ScheduleTimeOf(i) = At(enq[e].called_at + run_after.n)
        /\ run_after.kind = "datetime" =>
              ScheduleTimeOf(i) = At(run_after.n)
        /\ run_after.kind = "None" =>
              ScheduleTimeOf(i) = NoTime

\* The queue names of the tasks the model enqueues.
QueueNames == {in[1].queue_name : in \in EnqueueInputs}

\* Sequences s and t have the same length and differ at most at position k.
DifferOnlyAt(s, t, k) ==
    /\ Len(s) = Len(t)
    /\ \A j \in DOMAIN s : j # k => s[j] = t[j]

\* C20: in every request the task name is the parent queue path followed
\* by tasks/<id>, where the parent is derived from (project, location,
\* queue_name) and <id> is the id of the call's TaskResult; another queue
\* name changes the queue segment only; and the TaskResult of a callback
\* has the task-name header value as its id.
C20_NameChildOfParent ==
    /\ \A e \in EnqueueIds : \A i \in RequestsOf(e) :
          LET name == create_calls[i].request.task.name
              parent == create_calls[i].request.parent
          IN  /\ parent = <<"projects", Format(options.PROJECT_ID),
                            "locations", Format(options.LOCATION),
                            "queues", enq[e].task.queue_name>>
              /\ name = parent \o <<"tasks", enq[e].result.id>>
              /\ name[Len(name)] = enq[e].result.id
              /\ enq[e].result.id \in RandomStrings
    /\ \A q1 \in QueueNames, q2 \in QueueNames, id \in RandomStrings :
          /\ DifferOnlyAt(GetTaskPath(options, q1, id),
                          GetTaskPath(options, q2, id), 6)
          /\ DifferOnlyAt(GetParentPath(options, q1),
                          GetParentPath(options, q2), 6)
          /\ GetTaskPath(options, q1, id)[6] = q1
          /\ GetParentPath(options, q1)[6] = q1
    /\ \A nh \in TaskNameHeaders :
          GetTaskResult(nh, PyNone, Envelope("tests.test_task", <<>>, <<>>),
                        ImportString("tests.test_task").value, clock).value.id
             = nh

C20_Witness ==
    \E e \in EnqueueIds : \E i \in RequestsOf(e) :
        /\ enq[e].task.queue_name = "test-1"
        /\ enq[e].state = "returned"
        /\ create_calls[i].request.task.name =
              create_calls[i].request.parent \o <<"tasks", enq[e].result.id>>

\* C23: with ENQUEUE_ON_COMMIT and an open transaction the TaskResult
\* enqueue() returns is READY with enqueued_at absent; it stays so while
\* the transaction is open and if it rolls back; once the commit hook of
\* the call has run the same TaskResult is ENQUEUED with enqueued_at set.
C23_DeferredResult ==
    \A e \in EnqueueIds :
        (Configured /\ DeferredCall(e)) =>
            /\ enq[e].hook \in {"registered", "discarded", "dropped"} =>
                  /\ enq[e].state = "returned"
                  /\ enq[e].result.status = "READY"
                  /\ enq[e].result.enqueued_at.is_none
            /\ enq[e].txn \in {"open", "rolled_back"} =>
                  /\ enq[e].result.status = "READY"
                  /\ enq[e].result.enqueued_at.is_none
            /\ enq[e].hook = "ran" =>
                  /\ enq[e].result.status = "ENQUEUED"
                  /\ ~enq[e].result.enqueued_at.is_none

\* The task or the default target of call e cannot be used: validate_task
\* or get_default_target raises.
Unusable(e) == ~enq[e].task.valid \/ options.DEFAULT_TARGET = PyNone

\* C25: with ENQUEUE_ON_COMMIT, an enqueue() of an invalid task or with
\* the default target missing raises to its caller (InvalidTask first,
\* ImproperlyConfigured otherwise), registers no commit hook and sends no
\* request or event, at the call or at any later commit.
C25_FailsBeforeRegistering ==
    \A e \in EnqueueIds :
        (options.ENQUEUE_ON_COMMIT /\ Called(e) /\ Unusable(e)) =>
            /\ enq[e].state = "raised"
            /\ enq[e].raised = IF ~enq[e].task.valid THEN "InvalidTask"
                               ELSE "ImproperlyConfigured"
            /\ enq[e].hook = ""
            /\ \A i \in DOMAIN run_on_commit : run_on_commit[i] # e
            /\ \A i \in DOMAIN committing : committing[i] # e
            /\ RequestsOf(e) = {}
            /\ EventsOf(e) = {}

C25_Witness ==
    \E e \in EnqueueIds :
        /\ options.ENQUEUE_ON_COMMIT
        /\ enq[e].txn = "committed" /\ CommitDone
        /\ ~enq[e].task.valid
        /\ enq[e].raised = "InvalidTask"
        /\ RequestsOf(e) = {}

\* Calls d and e were both deferred to the commit of the same transaction,
\* d before e, and that commit has run all it had to run.
SameCommit(d, e) ==
    /\ d < e
    /\ DeferredCall(d) /\ DeferredCall(e)
    /\ enq[d].txn = "committed" /\ enq[e].txn = "committed"
    /\ enq[d].block = enq[e].block
    /\ CommitDone
    /\ enq[d].hook # "" /\ enq[e].hook # ""

\* The task name of the request of call e.
NameOf(e) == enq[e].cloud_task.name

\* C26 as stated: the calls deferred in one transaction have, after the
\* commit, exactly one request each, sent in the order of the calls, with
\* distinct task names, each followed by its own task_enqueued event
\* before the next request; a failed create-call marks nothing and sends
\* no event.
C26_OnePerCallInOrder ==
    /\ \A e \in EnqueueIds :
          (Configured /\ DeferredCall(e) /\ enq[e].txn = "committed"
              /\ CommitDone) =>
              /\ Cardinality(RequestsOf(e)) = 1
              /\ FailedOf(e) # {} =>
                    /\ EventsOf(e) = {}
                    /\ enq[e].result.enqueued_at.is_none
              /\ FailedOf(e) = {} => Cardinality(EventsOf(e)) = 1
    /\ \A d \in EnqueueIds, e \in EnqueueIds :
          (Configured /\ SameCommit(d, e)) =>
              /\ NameOf(d) # NameOf(e)
              /\ \A i \in RequestsOf(d), j \in RequestsOf(e) : i < j
              /\ \A i \in EventsOf(d), j \in EventsOf(e) : i < j

\* C26 as amended: the hooks of the calls deferred in one transaction run
\* in the order of the calls until one of them raises; a call has at most
\* one request, a request whose create-call returned has its own event and
\* a marked TaskResult, a failed create-call marks nothing and sends no
\* event, requests and events keep the order of the calls, and a request
\* and its event are sent in one run of the hook, before the next hook
\* starts; once a hook has raised, the calls after it send nothing.  The
\* task names differ where the ids drawn for the calls differ.
C26_InOrderUntilFailure ==
    /\ [](\A e \in EnqueueIds :
            (DeferredCall(e) /\ enq[e].txn = "committed" /\ CommitDone) =>
                /\ Cardinality(RequestsOf(e)) <= 1
                /\ Cardinality(EventsOf(e)) = Cardinality(CreatedOf(e))
                /\ FailedOf(e) # {} =>
                      /\ EventsOf(e) = {}
                      /\ enq[e].result.enqueued_at.is_none
                /\ CreatedOf(e) # {} => ~enq[e].result.enqueued_at.is_none)
    /\ [](\A d \in EnqueueIds, e \in EnqueueIds :
            SameCommit(d, e) =>
                /\ enq[d].result.id # enq[e].result.id =>
                      NameOf(d) # NameOf(e)
                /\ \A i \in RequestsOf(d), j \in RequestsOf(e) : i < j
                /\ \A i \in EventsOf(d), j \in EventsOf(e) : i < j
                /\ enq[d].hook \in {"failed", "dropped"} =>
                      /\ enq[e].hook = "dropped"
                      /\ RequestsOf(e) = {} /\ EventsOf(e) = {}
                /\ enq[d].hook = "ran" =>
                      enq[e].hook \in {"ran", "failed"})
    /\ [][/\ Len(create_calls') <= Len(create_calls) + 1
          /\ \A j \in DOMAIN enqueued_signals' \ DOMAIN enqueued_signals :
                /\ Len(create_calls') = Len(create_calls) + 1
                /\ enqueued_signals'[j].owner =
                      create_calls'[Len(create_calls')].owner]_vars

C26_Witness ==
    \E d \in EnqueueIds, e \in EnqueueIds :
        /\ SameCommit(d, e)
        /\ enq[d].hook = "ran" /\ enq[e].hook = "ran"
        /\ NameOf(d) # NameOf(e)
        /\ \A i \in RequestsOf(d), j \in RequestsOf(e) : i < j
        /\ Cardinality(EventsOf(d)) = 1 /\ Cardinality(EventsOf(e)) = 1

(* ------------------------------------------------------------------ *)
(* Properties of the wire (specification WireSpec)                     *)
(* ------------------------------------------------------------------ *)

\* enqueue() call e accepted its (task, args, kwargs): it returned.
Accepted(e) == enq[e].state = "returned"

\* Callback c was dispatched with the body enqueue() call e put in its
\* scheduling request.
DispatchedFor(c, e) ==
    /\ Accepted(e)
    /\ pc[c] # "idle"
    /\ body[c] = enq[e].cloud_task.http_request.body

\* C21: the body enqueue() places in the scheduling request passes the
\* view's parsing and validation, resolves to the task that was enqueued,
\* and by the end of the callback the task has been executed exactly once,
\* with the positional and the keyword arguments that were submitted, and
\* the response is a success when the body returned.
C21_WireRoundTrip ==
    \A c \in Callbacks, e \in EnqueueIds :
        DispatchedFor(c, e) =>
            /\ raised[c] \notin {"JSONDecodeError", "ValueError", "TypeError",
                                 "ImportError", "SuspiciousOperation"}
            /\ Occurs(trace[c], "get_task_result") =>
                  /\ data[c] = TaskData(enq[e].task,
                                        PyList(enq[e].result.args.items),
                                        enq[e].result.kwargs)
                  /\ task[c].module_path = enq[e].task.module_path
            /\ Done(c) =>
                  /\ Len(calls[c]) = 1
                  /\ calls[c][1].args = enq[e].result.args.items
                  /\ calls[c][1].kwargs = enq[e].result.kwargs.pairs
                  /\ BodyReturned(c) => response[c] = JsonResponse(TRUE, 200)

(* ------------------------------------------------------------------ *)
(* Properties of concurrent callbacks (specification ConcurrentSpec)   *)
(* ------------------------------------------------------------------ *)

\* What belongs to callback c: its TaskResult and everything post and
\* run_task keep for it.
Own(c) ==
    <<task_result[c], signals[c], calls[c], exc[c], data[c], task[c],
      response[c], raised[c], trace[c]>>

\* The TaskResult of callback c holds what c itself did and nothing else.
OwnRecord(c) ==
    LET r == task_result[c] IN
    /\ \A i \in DOMAIN signals[c] :
          /\ signals[c][i].owner = c
          /\ signals[c][i].signal =
                IF i = 1 THEN "task_started" ELSE "task_finished"
          /\ signals[c][i].task_result.started_at = r.started_at
          /\ signals[c][i].task_result.retry_count = r.retry_count
    /\ LastStep(c) \in {"task_started", "task_finished"} =>
          signals[c][Len(signals[c])].task_result = r
    /\ r.errors = IF r.status = "FAILED" THEN <<TaskError(exc[c])>> ELSE <<>>
    /\ r.status = "FAILED" <=> Occurs(trace[c], "except")
    /\ r.has_return_value =>
          /\ Len(calls[c]) = 1
          /\ r.return_value = PyBool(TRUE)
    /\ r.status = "SUCCESSFUL" => r.has_return_value
    /\ Constructed(c) =>
          /\ headers[c].read
          /\ r.id = headers[c].name
          /\ RetryCount(headers[c].retry) = Return(r.retry_count)

\* C24: concurrent callbacks are isolated.  Each callback has its own
\* TaskResult with its own errors list: a step of one callback changes
\* nothing of what belongs to another, also when both carry the same task
\* name and the same task identifier; the status, errors, timestamps and
\* return value of a TaskResult are those of its own callback; and the
\* events of a callback are its own, task_started first and task_finished
\* after it.
C24_CallbacksIsolated ==
    /\ [](\A c \in ConcurrentCallbacks : OwnRecord(c))
    /\ [][\A c \in ConcurrentCallbacks : pc'[c] = pc[c] => Own(c)' = Own(c)]_vars
    /\ [][\A c \in ConcurrentCallbacks, d \in ConcurrentCallbacks :
            (c # d /\ pc'[c] # pc[c]) => pc'[d] = pc[d]]_vars

C24_Witness ==
    /\ Done(1) /\ Done(2)
    /\ task_result[1].id = task_result[2].id
    /\ task_result[1].task = task_result[2].task
    /\ task_result[1].status = "SUCCESSFUL" /\ task_result[1].errors = <<>>
    /\ task_result[2].status = "FAILED" /\ Len(task_result[2].errors) = 1
    /\ task_result[1].started_at = At(1) /\ task_result[2].started_at = At(1)
    /\ task_result[1].finished_at = At(2) /\ task_result[2].finished_at = At(2)
    /\ SignalNames(1) = <<"task_started", "task_finished">>
    /\ SignalNames(2) = <<"task_started", "task_finished">>

====
